---- MODULE Spec2Model ----
(***************************************************************************)
(* Model of flowcontainer/reader.py: Reader.read and Reader.read_tshark.   *)
(*                                                                         *)
(* Text is modelled as a sequence of tokens.  The delimiter characters     *)
(* the code splits on ("\n", "+", ",") and whitespace are tokens of their  *)
(* own; every other token stands for a run of ordinary characters.  The    *)
(* empty string is the empty sequence.                                     *)
(*                                                                         *)
(* The print calls and the verbose flag change no state and are left out.  *)
(* np.asarray of rows that end in a list depends on the numpy in use: it   *)
(* builds an object array of one column per cell, or raises ValueError.    *)
(* Both outcomes are steps of the model.                                   *)
(***************************************************************************)
EXTENDS Integers, Sequences, FiniteSets, TLC

VARIABLES
    pc,          \* position of the call: idle, built, loop, handler, warned, returned, raised
    request,     \* the arguments of read: path, filter, extension
    extension,   \* read_tshark's extension, a list once it is normalised
    command,     \* the tshark argument list
    process,     \* the finished tool process: its exit status and stderr text
    lines,       \* the non-empty lines of the decoded stdout, being iterated
    i,           \* index of the line the loop reads next
    result,      \* the list of rows built so far
    table,       \* the value read returned (None before, and when it raised)
    error,       \* the exception in flight or propagated (None when there is none)
    warnings,    \* the warnings emitted so far, in order
    backends     \* the extraction backends invoked so far, in order

vars == <<pc, request, extension, command, process, lines, i, result,
          table, error, warnings, backends>>

None == [kind |-> "None"]

----------------------------------------------------------------------------
(* Bounds of the model *)

\* most lines in one tool output
MaxLines == 2

\* most identifiers in an extension list
MaxExt == 2

----------------------------------------------------------------------------
(* Python string and list primitives *)

Min(a, b) == IF a < b THEN a ELSE b
Max(a, b) == IF a > b THEN a ELSE b

Whitespace == {" ", "\r", "\t"}

\* index of the first occurrence of token d in s, 0 when there is none
RECURSIVE FirstIndex(_, _, _)
FirstIndex(s, d, k) ==
    IF k > Len(s) THEN 0
    ELSE IF s[k] = d THEN k
    ELSE FirstIndex(s, d, k + 1)

\* str.split(d): always at least one piece
RECURSIVE Split(_, _)
Split(s, d) ==
    LET k == FirstIndex(s, d, 1) IN
    IF k = 0 THEN <<s>>
    ELSE <<SubSeq(s, 1, k - 1)>> \o Split(SubSeq(s, k + 1, Len(s)), d)

\* str.strip()
RECURSIVE Strip(_)
Strip(s) ==
    IF s = <<>> THEN s
    ELSE IF s[1] \in Whitespace THEN Strip(Tail(s))
    ELSE IF s[Len(s)] \in Whitespace THEN Strip(SubSeq(s, 1, Len(s) - 1))
    ELSE s

\* str.replace(d, "")
Remove(s, d) == SelectSeq(s, LAMBDA t : t # d)

\* filter(None, strings)
FilterNone(ss) == SelectSeq(ss, LAMBDA s : s # <<>>)

\* list.insert(idx, x) with a negative idx, as Python resolves it
InsertNeg(s, idx, x) ==
    LET at == Max(Len(s) + idx, 0) IN
    SubSeq(s, 1, at) \o <<x>> \o SubSeq(s, at + 1, Len(s))

\* s[from:-1] with from a 0-based index
SliceToLast(s, from) ==
    IF from >= Len(s) - 1 THEN <<>> ELSE SubSeq(s, from + 1, Len(s) - 1)

\* s[k] with k a 0-based index
At(s, k) == s[k + 1]

----------------------------------------------------------------------------
(* Command construction, read_tshark lines 122-149 *)

Path == "capture.pcap"

\* the read filter template without its {0} placeholder
BaselineFilter ==
    <<"ip", "and", "not", "icmp",
      "and", "not", "tcp.analysis.retransmission",
      "and", "not", "tcp.analysis.out_of_order",
      "and", "not", "tcp.analysis.duplicate_ack",
      "and", "not", "mdns",
      "and", "not", "ssdp">>

\* template.format(" and " + filter_str), or template.format("")
FormatFilter(f) ==
    IF f # <<>> THEN BaselineFilter \o <<"and">> \o f
    ELSE BaselineFilter

BaseCommand(path, f) ==
    <<"tshark", "-r", path, "-Tfields", "-E", "separator=+",
      "-e", "frame.time_epoch",
      "-e", "tcp.stream",
      "-e", "udp.stream",
      "-e", "ip.proto",
      "-e", "ip.src",
      "-e", "tcp.srcport",
      "-e", "udp.srcport",
      "-e", "ip.dst",
      "-e", "tcp.dstport",
      "-e", "udp.dstport",
      "-e", "ip.len",
      "-e", "tcp.len",
      "-e", "udp.length",
      "-e", "ip.id",
      "-2", "-R", FormatFilter(f)>>

\* position, counted from the end, the extension arguments are inserted at
InsertAt == -5

Str(s) == [kind |-> "str", val |-> s]
List(l) == [kind |-> "list", val |-> l]

\* if type(extension) == type(""): extension = [extension]
AsList(ext) == IF ext.kind = "str" THEN List(<<ext.val>>) ELSE ext

\* variant: the extension arguments are inserted after ip.id, before "-2"
InsertExtensionAfterId(cmd, each) ==
    InsertNeg(InsertNeg(cmd, InsertAt + 2, "-e"), InsertAt + 2, each)

\* command.insert(-5, '-e'); command.insert(-5, each)
InsertExtension(cmd, each) ==
    InsertNeg(InsertNeg(cmd, InsertAt, "-e"), InsertAt, each)

\* for each in extension: if each != "": insert it
RECURSIVE AddExtensions(_, _)
AddExtensions(cmd, exts) ==
    IF exts = <<>> THEN cmd
    ELSE AddExtensions(IF Head(exts) # "" THEN InsertExtension(cmd, Head(exts))
                       ELSE cmd,
                       Tail(exts))

BuildCommand(path, f, ext) == AddExtensions(BaseCommand(path, f), AsList(ext).val)

----------------------------------------------------------------------------
(* The external tool, as the command addresses it: it reads the -e options *)
(* in order and writes, for a packet, one value per requested field,       *)
(* joined by the separator.                                                *)

ValueOptions == {"-r", "-E", "-R"}

RECURSIVE FieldsFrom(_, _)
FieldsFrom(cmd, k) ==
    IF k >= Len(cmd) THEN <<>>
    ELSE IF cmd[k] = "-e" THEN <<cmd[k + 1]>> \o FieldsFrom(cmd, k + 2)
    ELSE IF cmd[k] \in ValueOptions THEN FieldsFrom(cmd, k + 2)
    ELSE FieldsFrom(cmd, k + 1)

\* the requested fields, in command order
RequestedFields(cmd) == FieldsFrom(cmd, 2)

RECURSIVE Join(_, _)
Join(parts, d) ==
    IF parts = <<>> THEN <<>>
    ELSE IF Len(parts) = 1 THEN parts[1]
    ELSE parts[1] \o <<d>> \o Join(Tail(parts), d)

\* A packet: its IP protocol number as the tool prints it, and whether it
\* carries an encapsulated second IP layer (the tool then prints two
\* comma-separated values for the IP fields).
Packets ==
    { [proto |-> <<"6">>,  encap |-> FALSE],
      [proto |-> <<"17">>, encap |-> TRUE],
      [proto |-> <<"47">>, encap |-> FALSE],
      [proto |-> <<>>,     encap |-> TRUE] }

IpFields == {"ip.src", "ip.dst", "ip.len"}

\* the text the tool prints for field f of packet p: the field's own name
\* stands for its value, so every column is told apart from every other
FieldValue(p, f) ==
    IF f = "ip.proto" THEN p.proto
    ELSE IF f \in IpFields /\ p.encap THEN <<f, ",", "inner">>
    ELSE <<f>>

PacketValues(cmd, p) ==
    [k \in 1..Len(RequestedFields(cmd)) |-> FieldValue(p, RequestedFields(cmd)[k])]

\* the line of a packet
PacketLine(cmd, p) == Join(PacketValues(cmd, p), "+")

\* a line cut short after its first m fields (partial tool output)
CutLine(cmd, p, m) ==
    Join(SubSeq(PacketValues(cmd, p), 1, Min(m, Len(PacketValues(cmd, p)))), "+")

CutLens == {8, 9, 12}

CutPackets == { [proto |-> <<"6">>, encap |-> TRUE] }

BlankLine == <<" ">>

\* the lines the tool may write for a command
ToolLines(cmd) ==
    { PacketLine(cmd, p) : p \in Packets }
    \cup { CutLine(cmd, p, m) : p \in CutPackets, m \in CutLens }
    \cup { BlankLine }

SeqsUpTo(S, n) == UNION { [1..k -> S] : k \in 0..n }

\* stdout: every line followed by a newline
RECURSIVE Stdout(_)
Stdout(ls) == IF ls = <<>> THEN <<>> ELSE Head(ls) \o <<"\n">> \o Stdout(Tail(ls))

----------------------------------------------------------------------------
(* Parsing, read_tshark lines 165-197 *)

\* least number of fields of a retained line
MinFields == 9

\* protocols.get(value, 'unknown') with protocols = {'17': 'udp', '6': 'tcp'}
ProtocolName(v) ==
    IF v = <<"17">> THEN <<"udp">>
    ELSE IF v = <<"6">> THEN <<"tcp">>
    ELSE <<"unknown">>

\* packet = packet.strip().split('+')
FieldsOf(line) == Split(Strip(line), "+")

\* variant: the threshold is one field lower
SkippedBelowEight(packet) == Len(packet) < MinFields - 1

\* if len(packet) < 9: continue
Skipped(packet) == Len(packet) < MinFields

\* the highest index the code reads of a retained packet: packet[10] for
\* every packet, then packet[11] of a tcp packet and packet[12] of any other
HighestIndexRead(packet) ==
    IF ProtocolName(At(packet, 3)) = <<"tcp">> THEN 11 ELSE 12

\* list index out of range
RaisesIndexError(packet) == Len(packet) <= HighestIndexRead(packet)

\* variant: the destination address is left as the tool printed it
NormaliseSourceOnly(packet) ==
    [packet EXCEPT ![3 + 1]  = ProtocolName(@),
                   ![4 + 1]  = Split(@, ",")[1],
                   ![10 + 1] = Remove(@, ",")]

\* packet[3], packet[4], packet[7], packet[10] rewritten in place
Normalise(packet) ==
    [packet EXCEPT ![3 + 1]  = ProtocolName(@),
                   ![4 + 1]  = Split(@, ",")[1],
                   ![7 + 1]  = Split(@, ",")[1],
                   ![10 + 1] = Remove(@, ",")]

\* variant: the ports of a tcp row are read from the udp columns
AssembleRowUdpPorts(path, packet) ==
    IF At(packet, 3) = <<"tcp">>
    THEN <<path, At(packet, 3), At(packet, 1), At(packet, 0), At(packet, 10),
           At(packet, 4), At(packet, 7), At(packet, 6), At(packet, 9),
           At(packet, 11), SliceToLast(packet, 13)>>
    ELSE <<path, At(packet, 3), At(packet, 2), At(packet, 0), At(packet, 10),
           At(packet, 4), At(packet, 7), At(packet, 6), At(packet, 9),
           At(packet, 12), SliceToLast(packet, 13)>>

\* the row appended for a normalised packet
AssembleRow(path, packet) ==
    IF At(packet, 3) = <<"tcp">>
    THEN <<path, At(packet, 3), At(packet, 1), At(packet, 0), At(packet, 10),
           At(packet, 4), At(packet, 7), At(packet, 5), At(packet, 8),
           At(packet, 11), SliceToLast(packet, 13)>>
    ELSE <<path, At(packet, 3), At(packet, 2), At(packet, 0), At(packet, 10),
           At(packet, 4), At(packet, 7), At(packet, 6), At(packet, 9),
           At(packet, 12), SliceToLast(packet, 13)>>

\* columns of the empty table before the extensions are counted
EmptyBaseColumns == 12

\* np.zeros((0, 12 + len(extension)), dtype=object)
EmptyTable(ext) == [rows |-> <<>>, columns |-> EmptyBaseColumns + Len(ext.val)]

\* np.asarray(rows) where it builds an object array: one column per cell
ObjectTable(rows) == [rows |-> rows, columns |-> Len(rows[1])]

----------------------------------------------------------------------------
(* The read filter as the tool evaluates it.  The filters of the model use *)
(* no parentheses; in the tool's filter language "not" binds tighter than  *)
(* "and", and "and" binds tighter than "or".                               *)

\* the value that follows option opt in the argument list
RECURSIVE OptionValue(_, _, _)
OptionValue(cmd, opt, k) ==
    IF k >= Len(cmd) THEN <<>>
    ELSE IF cmd[k] = opt THEN cmd[k + 1]
    ELSE IF cmd[k] \in ValueOptions \cup {"-e"} THEN OptionValue(cmd, opt, k + 2)
    ELSE OptionValue(cmd, opt, k + 1)

ReadFilterOf(cmd) == OptionValue(cmd, "-R", 2)

\* a test, possibly negated, on a packet given as the set of tests it passes
AdmitsTest(t, pkt) ==
    IF Head(t) = "not" THEN t[2] \notin pkt ELSE Head(t) \in pkt

AdmitsConjunction(ts, pkt) ==
    \A k \in DOMAIN Split(ts, "and") : AdmitsTest(Split(ts, "and")[k], pkt)

ToolAdmits(ts, pkt) ==
    \E k \in DOMAIN Split(ts, "or") : AdmitsConjunction(Split(ts, "or")[k], pkt)

----------------------------------------------------------------------------
(* Inputs *)

ExtNames == {"", "http.host", "dns.qry.name"}

\* lists of different identifiers
Distinct(l) == \A a, b \in DOMAIN l : a # b => l[a] # l[b]

Extensions ==
    {Str(""), Str("http.host")}
    \cup { List(l) : l \in { m \in SeqsUpTo(ExtNames, MaxExt) : Distinct(m) } }

Filters == { <<>>, <<"tcp", "or", "icmp">> }

\* exit status and stderr text of a tool process that ran
ToolOutcomes ==
    { [returncode |-> 0, stderr |-> <<>>],
      [returncode |-> 2, stderr |-> <<"tshark:", "error">>] }

----------------------------------------------------------------------------
(* The call *)

Init ==
    /\ pc = "idle"
    /\ request = None
    /\ extension = None
    /\ command = <<>>
    /\ process = None
    /\ lines = <<>>
    /\ i = 1
    /\ result = <<>>
    /\ table = None
    /\ error = None
    /\ warnings = <<>>
    /\ backends = <<>>

\* read calls read_tshark, which builds the command (lines 86, 122-149)
Read ==
    /\ pc = "idle"
    /\ \E f \in Filters, ext \in Extensions :
         /\ request' = [path |-> Path, filter |-> f, extension |-> ext]
         /\ extension' = AsList(ext)
         /\ command' = BuildCommand(Path, f, ext)
    /\ backends' = Append(backends, "tshark")
    /\ pc' = "built"
    /\ UNCHANGED <<process, lines, i, result, table, error, warnings>>

\* Popen cannot start the tool (line 157)
PopenFails ==
    /\ pc = "built"
    /\ error' = [kind |-> "OSError"]
    /\ pc' = "handler"
    /\ UNCHANGED <<request, extension, command, process, lines, i, result,
                   table, warnings, backends>>

\* the warning of lines 162-164
StderrWarning(err) == [kind |-> "Error reading file", text |-> err]

\* variant: a non-zero exit status is raised as an error
CommunicateChecked ==
    /\ pc = "built"
    /\ \E p \in ToolOutcomes, ls \in SeqsUpTo(ToolLines(command), MaxLines) :
         /\ process' = p
         /\ warnings' = IF p.stderr # <<>>
                        THEN Append(warnings, StderrWarning(p.stderr))
                        ELSE warnings
         /\ lines' = FilterNone(Split(Stdout(ls), "\n"))
         /\ IF p.returncode # 0
            THEN error' = [kind |-> "CalledProcessError"] /\ pc' = "handler"
            ELSE error' = error /\ pc' = "loop"
    /\ i' = 1
    /\ result' = <<>>
    /\ UNCHANGED <<request, extension, command, table, backends>>

\* the tool runs to its end; stdout is decoded, split into lines and the
\* empty lines are dropped (lines 157-167)
Communicate ==
    /\ pc = "built"
    /\ \E p \in ToolOutcomes, ls \in SeqsUpTo(ToolLines(command), MaxLines) :
         /\ process' = p
         /\ warnings' = IF p.stderr # <<>>
                        THEN Append(warnings, StderrWarning(p.stderr))
                        ELSE warnings
         /\ lines' = FilterNone(Split(Stdout(ls), "\n"))
    /\ i' = 1
    /\ result' = <<>>
    /\ pc' = "loop"
    /\ UNCHANGED <<request, extension, command, table, error, backends>>

\* one pass of the loop body (lines 167-197)
ParseLine ==
    /\ pc = "loop"
    /\ i <= Len(lines)
    /\ LET packet == FieldsOf(lines[i]) IN
         IF Skipped(packet)
         THEN /\ i' = i + 1
              /\ UNCHANGED <<pc, result, error>>
         ELSE IF RaisesIndexError(packet)
         THEN /\ error' = [kind |-> "IndexError"]
              /\ pc' = "handler"
              /\ UNCHANGED <<i, result>>
         ELSE /\ result' = Append(result, AssembleRow(request.path, Normalise(packet)))
              /\ i' = i + 1
              /\ UNCHANGED <<pc, error>>
    /\ UNCHANGED <<request, extension, command, process, lines, table,
                   warnings, backends>>

\* result shaping where np.asarray builds an array (lines 203-215)
ReturnTable ==
    /\ pc = "loop"
    /\ i > Len(lines)
    /\ table' = IF result = <<>> THEN EmptyTable(extension) ELSE ObjectTable(result)
    /\ pc' = "returned"
    /\ UNCHANGED <<request, extension, command, process, lines, i, result,
                   error, warnings, backends>>

\* np.asarray of rows whose last cell is a list: a numpy that refuses
\* ragged input raises ValueError (line 203)
AsarrayRaises ==
    /\ pc = "loop"
    /\ i > Len(lines)
    /\ result # <<>>
    /\ error' = [kind |-> "ValueError"]
    /\ pc' = "handler"
    /\ UNCHANGED <<request, extension, command, process, lines, i, result,
                   table, warnings, backends>>

\* the warning of lines 88-91
HandlerWarning(ex) == [kind |-> "tshark error", text |-> ex]

\* variant: the except clause goes on to re-raise without a warning
WarnOmitted ==
    /\ pc = "handler"
    /\ pc' = "warned"
    /\ UNCHANGED <<request, extension, command, process, lines, i, result,
                   table, error, warnings, backends>>

\* read's except clause warns (lines 87-91)
Warn ==
    /\ pc = "handler"
    /\ warnings' = Append(warnings, HandlerWarning(error))
    /\ pc' = "warned"
    /\ UNCHANGED <<request, extension, command, process, lines, i, result,
                   table, error, backends>>

\* raise ex (line 92)
Reraise ==
    /\ pc = "warned"
    /\ pc' = "raised"
    /\ UNCHANGED <<request, extension, command, process, lines, i, result,
                   table, error, warnings, backends>>

Next ==
    \/ Read
    \/ PopenFails
    \/ Communicate
    \/ ParseLine
    \/ ReturnTable
    \/ AsarrayRaises
    \/ Warn
    \/ Reraise

Spec == Init /\ [][Next]_vars

----------------------------------------------------------------------------
(* Vocabulary of the properties *)

Last(s) == s[Len(s)]

Terminal == {"returned", "raised"}

\* the tool process ran to its end
Ran == process # None

\* the extension identifiers that reach the command
Wanted == SelectSeq(extension.val, LAMBDA e : e # "")

\* number of extension identifiers the caller asked for
RequestedCount(ext) ==
    IF ext.kind = "str" THEN (IF ext.val = "" THEN 0 ELSE 1) ELSE Len(ext.val)

\* the fields of the line read last, and the fields the command requests
LastPacket == FieldsOf(lines[i - 1])
Requested == RequestedFields(command)

\* the loop has just been through a line that carries one value per
\* requested field (the rows and the lines change in no later step)
LastIsFull == pc = "loop" /\ i > 1 /\ Len(LastPacket) = Len(Requested)

\* the value a full line (split into packet) carries for the field named f,
\* found through the position of f among the requested fields
Named(packet, fields, f) == packet[FirstIndex(fields, f, 1)]

HasComma(v) == \E k \in DOMAIN v : v[k] = ","

\* v up to its first comma
IsFirstOf(w, v) ==
    /\ ~HasComma(w)
    /\ Len(w) <= Len(v)
    /\ w = SubSeq(v, 1, Len(w))
    /\ (Len(w) < Len(v) => v[Len(w) + 1] = ",")

\* v without its commas
IsCleaned(w, v) == w = SelectSeq(v, LAMBDA t : t # ",")

FixedFields ==
    {"frame.time_epoch", "tcp.stream", "udp.stream", "ip.proto", "ip.src",
     "tcp.srcport", "udp.srcport", "ip.dst", "tcp.dstport", "udp.dstport",
     "ip.len", "tcp.len", "udp.length", "ip.id"}

----------------------------------------------------------------------------
(* C1 *)

\* C1: when no line survives row admission, read returns a table of zero
\* rows and exactly 11 + n columns, n the number of extension identifiers
\* requested (0 for the default "", 1 for one string, the length of a list).
C1_EmptyTableColumns ==
    (pc = "returned" /\ result = <<>>) =>
        /\ table.rows = <<>>
        /\ table.columns = 11 + RequestedCount(request.extension)

----------------------------------------------------------------------------
(* C2 *)

\* the transport cells the claim states for a full line
StatedGroup(packet, fields) ==
    LET proto == Named(packet, fields, "ip.proto") IN
    IF proto = <<"6">>
    THEN [protocol |-> <<"tcp">>,
          stream |-> Named(packet, fields, "tcp.stream"),
          srcport |-> Named(packet, fields, "tcp.srcport"),
          dstport |-> Named(packet, fields, "tcp.dstport"),
          length |-> Named(packet, fields, "tcp.len")]
    ELSE [protocol |-> IF proto = <<"17">> THEN <<"udp">> ELSE <<"unknown">>,
          stream |-> Named(packet, fields, "udp.stream"),
          srcport |-> Named(packet, fields, "udp.srcport"),
          dstport |-> Named(packet, fields, "udp.dstport"),
          length |-> Named(packet, fields, "udp.length")]

----------------------------------------------------------------------------
(* C3 *)

\* C3: with k non-empty extension identifiers requested, the row of a line
\* that carries one value per requested field has an extension sequence of
\* exactly k elements, the j-th being the value of the j-th requested
\* identifier, none of them the value of ip.id or of another fixed field.
C3_ExtensionSlice ==
    LastIsFull =>
        /\ result # <<>>
        /\ LET cell   == Last(result)[11]
               packet == LastPacket
               fields == Requested
           IN  /\ Len(cell) = Len(Wanted)
               /\ \A j \in 1..Len(Wanted) :
                    /\ cell[j] = Named(packet, fields, Wanted[j])
                    /\ \A f \in FixedFields : cell[j] # Named(packet, fields, f)

\* a row whose extension sequence holds two different requested values
C3_Witness ==
    /\ LastIsFull
    /\ i = 2
    /\ Len(Wanted) = 2
    /\ result # <<>>
    /\ Last(result)[11] = << <<Wanted[1]>>, <<Wanted[2]>> >>

----------------------------------------------------------------------------
(* C4 *)

IsShort(line) == Len(FieldsOf(line)) < 9

\* the lines the loop has been through
Processed == SubSeq(lines, 1, i - 1)

\* the rows of lines none of which is short or raises
RECURSIVE RowsOf(_)
RowsOf(ls) ==
    IF ls = <<>> THEN <<>>
    ELSE <<AssembleRow(request.path, Normalise(FieldsOf(Head(ls))))>> \o RowsOf(Tail(ls))

\* C4: a line of fewer than 9 fields is dropped: it adds no row, read does
\* not raise because of it, and the rows of the other lines are what they
\* are without it.
C4_ShortLineDropped ==
    /\ pc = "loop" => result = RowsOf(SelectSeq(Processed, LAMBDA l : ~IsShort(l)))
    /\ (pc = "handler" /\ error.kind = "IndexError") => ~IsShort(lines[i])

\* a short line was passed over and a row of a later line follows it
C4_Witness ==
    /\ pc = "loop"
    /\ i = 3
    /\ IsShort(lines[1])
    /\ Len(FieldsOf(lines[1])) = 8
    /\ Len(result) = 1

----------------------------------------------------------------------------
(* C5 *)

----------------------------------------------------------------------------
(* C6 *)

\* C6: every row of a returned table has a protocol among tcp, udp and
\* unknown (6 is tcp, 17 is udp, anything else, the empty value included, is
\* unknown), an ip-length without comma, and source and destination
\* addresses without comma, the first of several addresses being kept.
C6_NormalisedCells ==
    /\ pc = "returned" =>
         \A k \in DOMAIN table.rows :
            /\ table.rows[k][2] \in {<<"tcp">>, <<"udp">>, <<"unknown">>}
            /\ ~HasComma(table.rows[k][5])
            /\ ~HasComma(table.rows[k][6])
            /\ ~HasComma(table.rows[k][7])
    /\ (pc = "loop" /\ i > 1 /\ Len(LastPacket) >= 9) =>
         LET row == Last(result)
             raw == LastPacket
         IN  /\ row[2] = IF raw[4] = <<"6">> THEN <<"tcp">>
                         ELSE IF raw[4] = <<"17">> THEN <<"udp">>
                         ELSE <<"unknown">>
             /\ IsCleaned(row[5], raw[11])
             /\ IsFirstOf(row[6], raw[5])
             /\ IsFirstOf(row[7], raw[8])

\* a returned table with a row of unknown protocol whose line carried
\* several addresses and a comma in its length
C6_Witness ==
    /\ pc = "returned"
    /\ table.rows # <<>>
    /\ Last(table.rows)[2] = <<"unknown">>
    /\ HasComma(LastPacket[5])
    /\ HasComma(LastPacket[8])
    /\ HasComma(LastPacket[11])
    /\ LastPacket[4] = <<>>

----------------------------------------------------------------------------
(* C7 *)

\* C7: when the tool is started but its invocation fails (a non-zero exit
\* status, as for an invalid filter), read emits a warning and re-raises an
\* error instead of returning a table.
C7_FailedInvocationRaises ==
    (Ran /\ process.returncode # 0) =>
        /\ table = None
        /\ pc \in Terminal => (pc = "raised" /\ warnings # <<>>)

\* C7 amended: read never inspects the exit status.  After a failed
\* invocation it has emitted the stderr warning when stderr is not empty
\* and, when stdout holds no non-empty line, it returns the table of zero
\* rows without raising.
C7_FailedInvocationNotInspected ==
    (Ran /\ process.returncode # 0) =>
        /\ process.stderr # <<>> =>
             (warnings # <<>> /\ warnings[1] = [kind |-> "Error reading file",
                                                text |-> process.stderr])
        /\ lines = <<>> =>
             /\ pc \in {"loop", "returned"}
             /\ error = None
             /\ Len(warnings) = (IF process.stderr # <<>> THEN 1 ELSE 0)
             /\ pc = "returned" => table.rows = <<>>

\* a failed invocation without output came back as an empty table
C7_Witness ==
    /\ pc = "returned"
    /\ Ran
    /\ process.returncode = 2
    /\ lines = <<>>
    /\ table.rows = <<>>
    /\ error = None

----------------------------------------------------------------------------
(* C8 *)

\* C8: every returned table has 11 + (number of requested extension fields)
\* columns, with rows or without: each row has that many cells.
C8_FixedColumnCount ==
    pc = "returned" =>
        /\ table.columns = 11 + RequestedCount(request.extension)
        /\ \A k \in DOMAIN table.rows : Len(table.rows[k]) = table.columns

----------------------------------------------------------------------------
(* C9 *)

\* C9: every non-empty line of at least 9 fields yields exactly one row, in
\* the order of the output, and no line makes read raise.
C9_NineFieldsSuffice ==
    /\ pc = "loop" => Len(result) = Len(SelectSeq(Processed, LAMBDA l : ~IsShort(l)))
    /\ pc = "handler" => error.kind # "IndexError"

----------------------------------------------------------------------------
(* C10 *)

\* what a packet can be told apart by in the filters of the model
FilterTests ==
    {"ip", "icmp", "tcp.analysis.retransmission", "tcp.analysis.out_of_order",
     "tcp.analysis.duplicate_ack", "mdns", "ssdp", "tcp"}

PassesBaseline(pkt) ==
    /\ "ip" \in pkt
    /\ pkt \cap {"icmp", "tcp.analysis.retransmission", "tcp.analysis.out_of_order",
                 "tcp.analysis.duplicate_ack", "mdns", "ssdp"} = {}

\* C10: the read filter of the command (built once, never changed after)
\* admits a packet only if the packet passes the baseline and, when the
\* caller gave a filter, the caller's filter taken as a whole.
C10_FilterIsConjunction ==
    pc = "built" =>
        \A pkt \in SUBSET FilterTests :
            ToolAdmits(ReadFilterOf(command), pkt) =>
                /\ PassesBaseline(pkt)
                /\ request.filter # <<>> => ToolAdmits(request.filter, pkt)

====
